---- MODULE Spec2Model ----
(***************************************************************************)
(* FracSim-AI: the analytical fracture solvers (PKN, KGD, Radial), the     *)
(* regime classifier, the history and profile generators, the sensitivity  *)
(* analyzer, the unit conversion and the App state that drives them.       *)
(*                                                                         *)
(* NUMBERS.  The program computes with JavaScript numbers (IEEE-754        *)
(* binary64).  Here a number is a binary floating-point value with the     *)
(* same special values (NaN, +Infinity, -Infinity, 0), the same exponent   *)
(* range and the same rounding rule (round to nearest, ties to even), but  *)
(* with a significand of Prec bits instead of 53.  A number is a triple    *)
(* <<s, m, e>>:                                                            *)
(*    <<1, m, e>>, <<-1, m, e>>   the finite value s * m * 2^e, with       *)
(*                                2^(Prec-1) <= m < 2^Prec                 *)
(*    <<0, 0, 0>>                 zero (the sign of zero is not kept)      *)
(*    <<2, 0, 0>>, <<-2, 0, 0>>   +Infinity, -Infinity                     *)
(*    <<9, 0, 0>>                 NaN                                      *)
(* Every arithmetic operator rounds its exact result once, as the          *)
(* hardware does.  Subnormals are not kept: a result below 2^MinExp is 0.  *)
(***************************************************************************)
EXTENDS Integers, Sequences, FiniteSets, TLC

\* Significand width of the number model (binary64 has 53).
Prec == 8

\* binary64: largest finite value is below 2^1024, smallest positive is 2^-1074.
MaxExp == 2 ^ 10 - 1
MinExp == -(2 ^ 10) - 50

TwoP == 2 ^ Prec
HalfP == 2 ^ (Prec - 1)

NaN == <<9, 0, 0>>
PosInf == <<2, 0, 0>>
NegInf == <<-2, 0, 0>>
Zero == <<0, 0, 0>>

IsNaN(a) == a[1] = 9
IsInf(a) == a[1] = 2 \/ a[1] = -2
IsZero(a) == a[1] = 0
IsFin(a) == a[1] = 1 \/ a[1] = -1
\* Number.isFinite
isFinite(a) == IsZero(a) \/ IsFin(a)
\* sign of a non-NaN number: -1, 0, 1
Sgn(a) == IF a[1] > 0 THEN 1 ELSE IF a[1] < 0 THEN -1 ELSE 0
Inf(s) == IF s < 0 THEN NegInf ELSE PosInf

\* number of bits of a positive integer below 2^30
BitLen(n) ==
  IF n < 32768
  THEN IF n < 256
       THEN IF n < 16
            THEN IF n < 4
                 THEN IF n < 2
                      THEN 1
                      ELSE 2
                 ELSE IF n < 8
                      THEN 3
                      ELSE 4
            ELSE IF n < 64
                 THEN IF n < 32
                      THEN 5
                      ELSE 6
                 ELSE IF n < 128
                      THEN 7
                      ELSE 8
       ELSE IF n < 4096
            THEN IF n < 1024
                 THEN IF n < 512
                      THEN 9
                      ELSE 10
                 ELSE IF n < 2048
                      THEN 11
                      ELSE 12
            ELSE IF n < 16384
                 THEN IF n < 8192
                      THEN 13
                      ELSE 14
                 ELSE 15
  ELSE IF n < 8388608
       THEN IF n < 524288
            THEN IF n < 131072
                 THEN IF n < 65536
                      THEN 16
                      ELSE 17
                 ELSE IF n < 262144
                      THEN 18
                      ELSE 19
            ELSE IF n < 2097152
                 THEN IF n < 1048576
                      THEN 20
                      ELSE 21
                 ELSE IF n < 4194304
                      THEN 22
                      ELSE 23
       ELSE IF n < 134217728
            THEN IF n < 33554432
                 THEN IF n < 16777216
                      THEN 24
                      ELSE 25
                 ELSE IF n < 67108864
                      THEN 26
                      ELSE 27
            ELSE IF n < 536870912
                 THEN IF n < 268435456
                      THEN 28
                      ELSE 29
                 ELSE 30

\* range check of a rounded finite value s * m * 2^e
Ranged(s, m, e) ==
  IF e + Prec - 1 > MaxExp THEN Inf(s)
  ELSE IF e + Prec - 1 < MinExp THEN Zero
  ELSE <<s, m, e>>

\* The number nearest to s * (n + sticky) * 2^e, where n is a positive
\* integer of len bits and sticky (0 or 1) says that a positive amount below
\* one unit of n was dropped; ties go to the even significand.
RoundL(s, n, e, sticky, len) ==
  IF len <= Prec
  THEN Ranged(s, n * 2 ^ (Prec - len), e - (Prec - len))
  ELSE LET k == len - Prec
           q == n \div 2 ^ k
           r == n % 2 ^ k
           half == 2 ^ (k - 1)
           up == r > half \/ (r = half /\ (sticky = 1 \/ q % 2 = 1))
           m == IF up THEN q + 1 ELSE q
       IN IF m = TwoP THEN Ranged(s, HalfP, e + k + 1)
          ELSE Ranged(s, m, e + k)

Round(s, n, e, sticky) == RoundL(s, n, e, sticky, BitLen(n))

\* an integer as a number
RECURSIVE Pow5(_)
Pow5(k) == IF k = 0 THEN 1 ELSE 5 * Pow5(k - 1)

Int2F(n) == IF n = 0 THEN Zero
            ELSE IF n > 0 THEN Round(1, n, 0, 0) ELSE Round(-1, -n, 0, 0)

Neg(a) == IF IsNaN(a) \/ IsZero(a) THEN a ELSE <<-a[1], a[2], a[3]>>

\* a * b
Mul(a, b) ==
  IF IsNaN(a) \/ IsNaN(b) THEN NaN
  ELSE IF IsInf(a) \/ IsInf(b)
       THEN IF IsZero(a) \/ IsZero(b) THEN NaN ELSE Inf(Sgn(a) * Sgn(b))
  ELSE IF IsZero(a) \/ IsZero(b) THEN Zero
  ELSE LET n == a[2] * b[2]
       IN RoundL(a[1] * b[1], n, a[3] + b[3], 0,
                 IF n >= TwoP * HalfP THEN 2 * Prec ELSE 2 * Prec - 1)

\* a / b
Div(a, b) ==
  IF IsNaN(a) \/ IsNaN(b) THEN NaN
  ELSE IF IsInf(a)
       THEN IF IsInf(b) THEN NaN
            ELSE Inf(Sgn(a) * (IF Sgn(b) < 0 THEN -1 ELSE 1))
  ELSE IF IsInf(b) THEN Zero
  ELSE IF IsZero(b)
       THEN IF IsZero(a) THEN NaN ELSE Inf(Sgn(a))
  ELSE IF IsZero(a) THEN Zero
  ELSE LET n == a[2] * 2 ^ (Prec + 2)
           q == n \div b[2]
           r == n % b[2]
       IN Round(a[1] * b[1], q, a[3] - b[3] - (Prec + 2),
                IF r = 0 THEN 0 ELSE 1)

\* a + b
Add(a, b) ==
  IF IsNaN(a) \/ IsNaN(b) THEN NaN
  ELSE IF IsInf(a)
       THEN IF IsInf(b) /\ a # b THEN NaN ELSE a
  ELSE IF IsInf(b) THEN b
  ELSE IF IsZero(a) THEN b
  ELSE IF IsZero(b) THEN a
  ELSE LET hi == IF a[3] >= b[3] THEN a ELSE b
           lo == IF a[3] >= b[3] THEN b ELSE a
           d == hi[3] - lo[3]
       IN IF d <= Prec + 2
          THEN LET n == hi[1] * hi[2] * 2 ^ d + lo[1] * lo[2]
               IN IF n = 0 THEN Zero
                  ELSE IF n > 0 THEN Round(1, n, lo[3], 0)
                  ELSE Round(-1, -n, lo[3], 0)
          ELSE IF hi[1] = lo[1]
               THEN Round(hi[1], hi[2] * 8, hi[3] - 3, 1)
               ELSE Round(hi[1], hi[2] * 8 - 1, hi[3] - 3, 1)

\* a - b
Sub(a, b) == Add(a, Neg(b))

\* |a| < |b| for two numbers that are not NaN and not zero
MagLt(a, b) ==
  IF IsInf(a) THEN FALSE
  ELSE IF IsInf(b) THEN TRUE
  ELSE a[3] < b[3] \/ (a[3] = b[3] /\ a[2] < b[2])

\* a < b, a > b, a === b, a <= b: false as soon as one side is NaN
Lt(a, b) ==
  /\ ~IsNaN(a)
  /\ ~IsNaN(b)
  /\ \/ Sgn(a) < Sgn(b)
     \/ Sgn(a) = 1 /\ Sgn(b) = 1 /\ MagLt(a, b)
     \/ Sgn(a) = -1 /\ Sgn(b) = -1 /\ MagLt(b, a)
Gt(a, b) == Lt(b, a)
Eq(a, b) == ~IsNaN(a) /\ ~IsNaN(b) /\ a = b
Le(a, b) == Lt(a, b) \/ Eq(a, b)

\* Math.min(a, b)
MathMin(a, b) == IF IsNaN(a) \/ IsNaN(b) THEN NaN
                 ELSE IF Lt(b, a) THEN b ELSE a

\* a * 2^k, exact
Scale(a, k) == IF IsFin(a) THEN Ranged(a[1], a[2], a[3] + k) ELSE a

\* The decimal literal n * 10^k of the source text (n an integer), rounded once.
Lit(n, k) ==
  IF n = 0 THEN Zero
  ELSE IF k >= 0 THEN Scale(Int2F(n * Pow5(k)), k)
  ELSE Scale(Div(Int2F(n), Int2F(Pow5(-k))), k)

\* Math.pow(a, n) for an integer n >= 1: n - 1 rounded products
RECURSIVE Powi(_, _)
Powi(a, n) == IF n = 1 THEN a ELSE Mul(Powi(a, n - 1), a)

\* largest integer r in lo..hi with r * r <= n (lo * lo <= n assumed)
RECURSIVE ISqrt(_, _, _)
ISqrt(n, lo, hi) ==
  IF lo = hi THEN lo
  ELSE LET mid == (lo + hi + 1) \div 2
       IN IF mid * mid <= n THEN ISqrt(n, mid, hi) ELSE ISqrt(n, lo, mid - 1)

\* Math.sqrt(a), correctly rounded
Sqrt(a) ==
  IF IsNaN(a) \/ Sgn(a) < 0 THEN NaN
  ELSE IF IsInf(a) \/ IsZero(a) THEN a
  ELSE LET j == IF (a[3] - (Prec + 2)) % 2 = 0 THEN Prec + 2 ELSE Prec + 3
           n == a[2] * 2 ^ j
           r == ISqrt(n, 1, 32767)
       IN Round(1, r, (a[3] - j) \div 2, IF r * r = n THEN 0 ELSE 1)

\* Math.pow with a fractional exponent works on 15-bit significands: a
\* positive value is a pair <<n, x>> = n * 2^x with 2^14 <= n < 2^15, and a
\* product keeps its 15 leading bits.
IMul(u, v) ==
  LET pr == u[1] * v[1]
  IN IF pr >= 536870912 THEN <<pr \div 32768, u[2] + v[2] + 15>>
     ELSE <<pr \div 16384, u[2] + v[2] + 14>>

RECURSIVE IPow(_, _)
IPow(u, n) == IF n = 1 THEN u ELSE IMul(IPow(u, n - 1), u)

\* u <= v
ILe(u, v) == u[2] < v[2] \/ (u[2] = v[2] /\ u[1] <= v[1])

\* the pair of the integer h, which has len bits
IFrom(h, len) == <<h * 2 ^ (15 - len), len - 15>>

\* largest h in lo..hi with (h * 2^x)^q <= z, h of Prec + 1 bits
\* ((lo * 2^x)^q <= z assumed)
RECURSIVE RootSearch(_, _, _, _, _)
RootSearch(z, q, x, lo, hi) ==
  IF lo = hi THEN lo
  ELSE LET mid == (lo + hi + 1) \div 2
           pw == IPow(IFrom(mid, Prec + 1), q)
       IN IF ILe(<<pw[1], pw[2] + q * x>>, z) THEN RootSearch(z, q, x, mid, hi)
          ELSE RootSearch(z, q, x, lo, mid - 1)

\* Math.pow(a, p/q) for a fractional exponent 0 < p/q < 1: NaN for a negative
\* base, otherwise a^(p/q) rounded to nearest.  The root is found to one more
\* bit than a significand has (h) and then rounded.
PowFrac(a, p, q) ==
  IF IsNaN(a) THEN NaN
  ELSE IF IsInf(a) THEN PosInf
  ELSE IF IsZero(a) THEN Zero
  ELSE IF Sgn(a) < 0 THEN NaN
  ELSE LET ap == IPow(IFrom(a[2], Prec), p)
           z == <<ap[1], ap[2] + p * a[3]>>
           v == (z[2] + 14) \div q
           h == RootSearch(z, q, v - Prec, TwoP, 2 * TwoP - 1)
       IN RoundL(1, h, v - Prec, 1, Prec + 1)

(***************************************************************************)
(* Constants of the source text.                                           *)
(***************************************************************************)
One == Int2F(1)
MathPI == Lit(314159265, -8)

\* types.ts
ModelType == {"PKN", "KGD", "Radial"}
UnitSystem == {"SI", "Field"}
Fields == {"E", "nu", "sigma_min", "CL", "mu", "q", "H", "K_IC", "time",
           "p_limit", "depth"}

\* constants.ts
INITIAL_INPUTS ==
  [E |-> Lit(30, 9), nu |-> Lit(25, -2), sigma_min |-> Lit(40, 6),
   CL |-> Lit(5, -5), mu |-> Lit(1, -1), q |-> Lit(5, -2), H |-> Int2F(30),
   K_IC |-> Lit(1, 6), time |-> Int2F(1800), p_limit |-> Lit(70, 6),
   depth |-> Int2F(2500)]

(***************************************************************************)
(* services/fractureService                                                *)
(***************************************************************************)
\* A const of the source that is read more than once is bound below as the
\* parameter of a local operator, so that it is written (and evaluated) once.

getEPrime(E, nu) == Div(E, Sub(One, Powi(nu, 2)))

\* the score without the 1e6 of its denominator
checkRegimeUnscaled(type, E_prime, mu, q, K_IC, R_or_L, H) ==
  LET toughnessScore == Div(K_IC, Mul(mu, q))
  IN IF Gt(toughnessScore, Int2F(100)) THEN "Toughness" ELSE "Viscosity"

\* const toughnessScore = K_IC / (mu * q * 1e6)
checkRegime(type, E_prime, mu, q, K_IC, R_or_L, H) ==
  LET toughnessScore == Div(K_IC, Mul(Mul(mu, q), Lit(1, 6)))
  IN IF Gt(toughnessScore, Int2F(100)) THEN "Toughness" ELSE "Viscosity"

steps == 50
points == 50

\* 1 / (1/a + 1/b)
Harmonic(a, b) == Div(One, Add(Div(One, a), Div(One, b)))

\* the fields of a result that the three solvers compute in the same way
\*   p_well: sigma_min + final.p
\*   efficiency: Math.min(1, V_frac / Vi)
\*   volume_leakoff: Vi - V_frac
\* the result fields with the leaked-off volume clamped at zero (the clamp
\* that the source does not apply)
ResultFieldsClamped(type, in, final, w_avg, Vi, V_frac, regime, warnings) ==
  [type |-> type,
   length |-> final.L,
   width_avg |-> w_avg,
   width_max |-> final.w,
   p_net |-> final.p,
   p_well |-> Add(in.sigma_min, final.p),
   efficiency |-> MathMin(One, Div(V_frac, Vi)),
   volume_injected |-> Vi,
   volume_leakoff |-> IF Lt(Sub(Vi, V_frac), Zero) THEN Zero ELSE Sub(Vi, V_frac),
   regime |-> regime,
   warnings |-> warnings]

\* the result fields with the net pressure reported as wellbore pressure
ResultFieldsNet(type, in, final, w_avg, Vi, V_frac, regime, warnings) ==
  [type |-> type,
   length |-> final.L,
   width_avg |-> w_avg,
   width_max |-> final.w,
   p_net |-> final.p,
   p_well |-> final.p,
   efficiency |-> MathMin(One, Div(V_frac, Vi)),
   volume_injected |-> Vi,
   volume_leakoff |-> Sub(Vi, V_frac),
   regime |-> regime,
   warnings |-> warnings]

\* the result fields with the wellbore pressure reported as net pressure
ResultFieldsSwapped(type, in, final, w_avg, Vi, V_frac, regime, warnings) ==
  [type |-> type,
   length |-> final.L,
   width_avg |-> w_avg,
   width_max |-> final.w,
   p_net |-> Add(in.sigma_min, final.p),
   p_well |-> final.p,
   efficiency |-> MathMin(One, Div(V_frac, Vi)),
   volume_injected |-> Vi,
   volume_leakoff |-> Sub(Vi, V_frac),
   regime |-> regime,
   warnings |-> warnings]

ResultFields(type, in, final, w_avg, Vi, V_frac, regime, warnings) ==
  [type |-> type,
   length |-> final.L,
   width_avg |-> w_avg,
   width_max |-> final.w,
   p_net |-> final.p,
   p_well |-> Add(in.sigma_min, final.p),
   efficiency |-> MathMin(One, Div(V_frac, Vi)),
   volume_injected |-> Vi,
   volume_leakoff |-> Sub(Vi, V_frac),
   regime |-> regime,
   warnings |-> warnings]

\* ---- PKN Model ----
PKNTerms(in) ==
  LET terms(Ep) ==
        [Ep |-> Ep,
         \* 0.68 * Math.pow((Math.pow(q, 3) * Ep) / (mu * Math.pow(H, 4)), 0.2)
         kNo |-> Mul(Lit(68, -2),
                     PowFrac(Div(Mul(Powi(in.q, 3), Ep),
                                 Mul(in.mu, Powi(in.H, 4))), 1, 5)),
         \* 2 * Math.PI * CL * H
         den |-> Mul(Mul(Mul(Int2F(2), MathPI), in.CL), in.H),
         muq |-> Mul(in.mu, in.q),
         H4 |-> Powi(in.H, 4),
         Ep075 |-> PowFrac(Ep, 3, 4),
         q |-> in.q, H |-> in.H]
  IN terms(getEPrime(in.E, in.nu))

PKN_L_no_leakoff(c, t) == Mul(c.kNo, PowFrac(t, 4, 5))
PKN_L_high_leakoff(c, t) == Div(Mul(c.q, Sqrt(t)), c.den)

solvePKN(c, t) ==
  LET \* const w_max = (3 * p_net * H) / Ep
      withP(L, p_net) ==
        [L |-> L, p |-> p_net,
         w |-> Div(Mul(Mul(Int2F(3), p_net), c.H), c.Ep)]
      \* const p_net = 2.5 * Math.pow((mu * q * L) / Math.pow(H, 4), 0.25)
      \*               * Math.pow(Ep, 0.75)
      withL(L) ==
        withP(L, Mul(Mul(Lit(25, -1),
                         PowFrac(Div(Mul(c.muq, L), c.H4), 1, 4)),
                     c.Ep075))
  IN \* const L = 1 / (1/L_no_leakoff + 1/L_high_leakoff)
     withL(Harmonic(PKN_L_no_leakoff(c, t), PKN_L_high_leakoff(c, t)))

\* ---- KGD Model ----
KGDTerms(in) ==
  LET terms(Ep) ==
        [Ep |-> Ep,
         \* 0.48 * Math.pow((Ep * Math.pow(q, 3)) / (mu * Math.pow(H, 3)), 1/6)
         kNo |-> Mul(Lit(48, -2),
                     PowFrac(Div(Mul(Ep, Powi(in.q, 3)),
                                 Mul(in.mu, Powi(in.H, 3))), 1, 6)),
         \* 2 * Math.PI * CL * H
         den |-> Mul(Mul(Mul(Int2F(2), MathPI), in.CL), in.H),
         muq |-> Mul(in.mu, in.q),
         EpH |-> Mul(Ep, in.H),
         q |-> in.q]
  IN terms(getEPrime(in.E, in.nu))

KGD_L_no_leakoff(c, t) == Mul(c.kNo, PowFrac(t, 2, 3))
KGD_L_high_leakoff(c, t) == Div(Mul(c.q, Sqrt(t)), c.den)

solveKGD(c, t) ==
  LET \* const p_net = (Ep * w_max) / (4 * L)
      withW(L, w_max) ==
        [L |-> L, p |-> Div(Mul(c.Ep, w_max), Mul(Int2F(4), L)), w |-> w_max]
      \* const w_max = 1.32 * Math.pow((mu * q * Math.pow(L, 2)) / (Ep * H), 0.25)
      withL(L) ==
        withW(L, Mul(Lit(132, -2),
                     PowFrac(Div(Mul(c.muq, Powi(L, 2)), c.EpH), 1, 4)))
  IN \* const L = 1 / (1/L_no_leakoff + 1/L_high_leakoff)
     withL(Harmonic(KGD_L_no_leakoff(c, t), KGD_L_high_leakoff(c, t)))

\* ---- Radial Model ----
RadialTerms(in) ==
  LET terms(Ep) ==
        [Ep |-> Ep,
         \* 0.52 * Math.pow((Ep * Math.pow(q, 3)) / mu, 1/9)
         kNo |-> Mul(Lit(52, -2),
                     PowFrac(Div(Mul(Ep, Powi(in.q, 3)), in.mu), 1, 9)),
         \* Math.PI * Math.PI * CL
         den |-> Mul(Mul(MathPI, MathPI), in.CL),
         \* mu * q * Math.pow(Ep, 2)
         muqEp2 |-> Mul(Mul(in.mu, in.q), Powi(Ep, 2)),
         piEp |-> Mul(MathPI, Ep),
         q |-> in.q]
  IN terms(getEPrime(in.E, in.nu))

Radial_R_no_leakoff(c, t) == Mul(c.kNo, PowFrac(t, 4, 9))
Radial_R_high_leakoff(c, t) == Sqrt(Div(Mul(c.q, Sqrt(t)), c.den))

solveRadial(c, t) ==
  LET \* const w_max = (8 * p_net * R) / (Math.PI * Ep)
      withP(R, p_net) ==
        [L |-> R, p |-> p_net,
         w |-> Div(Mul(Mul(Int2F(8), p_net), R), c.piEp)]
      \* const p_net = 1.25 * Math.pow((mu * q * Math.pow(Ep, 2)) / Math.pow(R, 3), 0.25)
      withR(R) ==
        withP(R, Mul(Lit(125, -2),
                     PowFrac(Div(c.muqEp2, Powi(R, 3)), 1, 4)))
  IN \* const R = 1 / (1/R_no_leakoff + 1/R_high_leakoff)
     withR(Harmonic(Radial_R_no_leakoff(c, t), Radial_R_high_leakoff(c, t)))

\* a call of the closure solveXxx
calcAtTime(solver, c, t) ==
  IF solver = "solvePKN" THEN solvePKN(c, t)
  ELSE IF solver = "solveKGD" THEN solveKGD(c, t)
  ELSE solveRadial(c, t)

\* calcAtTime is the closure solveXxx of calculateXxx: solver is its name and
\* c the terms it has captured
\* the history sampled from the total time down to its first fiftieth
generateHistoryDescending(totalTime, solver, c) ==
  LET push(t, res) ==
        [time |-> t, length |-> res.L, width |-> res.w, pressure |-> res.p]
      at(t) == push(t, calcAtTime(solver, c, t))
  IN [i \in 1..steps |->
        at(Mul(Div(totalTime, Int2F(steps)), Int2F(steps + 1 - i)))]

\* the history sampled from time 0, one step early
generateHistoryFromZero(totalTime, solver, c) ==
  LET push(t, res) ==
        [time |-> t, length |-> res.L, width |-> res.w, pressure |-> res.p]
      at(t) == push(t, calcAtTime(solver, c, t))
  IN [i \in 1..steps |->
        at(Mul(Div(totalTime, Int2F(steps)), Int2F(i - 1)))]

generateHistory(totalTime, solver, c) ==
  LET push(t, res) ==
        [time |-> t, length |-> res.L, width |-> res.w, pressure |-> res.p]
      \* const res = calcAtTime(t)
      at(t) == push(t, calcAtTime(solver, c, t))
  IN \* const t = (totalTime / steps) * i
     [i \in 1..steps |-> at(Mul(Div(totalTime, Int2F(steps)), Int2F(i)))]

\* shapeExponent is the fraction ep/eq (0.25 = 1/4, 0.5 = 1/2)
generateProfile(L, w_max, ep, eq) ==
  LET \* const x_norm = x / L; const w = w_max * Math.pow(1 - x_norm, shapeExponent)
      at(x) ==
        [position |-> x,
         width |-> Mul(w_max, PowFrac(Sub(One, Div(x, L)), ep, eq))]
  IN \* for (let i = 0; i <= points; i++): const x = (L / points) * i
     [j \in 1..(points + 1) |-> at(Mul(Div(L, Int2F(points)), Int2F(j - 1)))]

\* The fields of a result other than timeSeries and profile are built by
\* XxxScalars, and calculateXxx adds the two sampled fields.  The
\* subexpressions of solveXxx that do not depend on t are evaluated once per
\* input set (XxxTerms) instead of once per sample; every product and
\* quotient is taken in the order of the source, so the values are the same.

\* adds the two sampled fields to the scalar fields sc of a result
WithSamples(sc, totalTime, solver, c, ep, eq) ==
  [type |-> sc.type, length |-> sc.length, width_avg |-> sc.width_avg,
   width_max |-> sc.width_max, p_net |-> sc.p_net, p_well |-> sc.p_well,
   efficiency |-> sc.efficiency, volume_injected |-> sc.volume_injected,
   volume_leakoff |-> sc.volume_leakoff, regime |-> sc.regime,
   warnings |-> sc.warnings,
   timeSeries |-> generateHistory(totalTime, solver, c),
   profile |-> generateProfile(sc.length, sc.width_max, ep, eq)]

\* ---- PKN Model: the result ----
\* the comparison of the warning turned around: warns of a long fracture
PKNWarningsLong(L, H) ==
  IF Gt(L, Mul(Int2F(2), H))
  THEN <<"L < 2H: PKN assumption violated (Short fracture).">>
  ELSE <<>>

\* warnings: final.L < 2 * i.H ? ["L < 2H: ..."] : []
PKNWarnings(L, H) ==
  IF Lt(L, Mul(Int2F(2), H))
  THEN <<"L < 2H: PKN assumption violated (Short fracture).">>
  ELSE <<>>

\* the scalar fields of the PKN result with the average width of a full
\* ellipse, (pi/4) * w_max without the factor 0.8
PKNScalarsElliptic(in) ==
  LET withW(final, w_avg) ==
        ResultFields("PKN", in, final, w_avg,
                     Mul(in.q, in.time),
                     Mul(Mul(Mul(final.L, in.H), w_avg), Int2F(2)),
                     checkRegime("PKN", getEPrime(in.E, in.nu), in.mu, in.q,
                                 in.K_IC, final.L, in.H),
                     PKNWarnings(final.L, in.H))
      withFinal(final) == withW(final, Mul(Div(MathPI, Int2F(4)), final.w))
  IN withFinal(solvePKN(PKNTerms(in), in.time))

PKNScalars(in) ==
  LET \* const Vi = q * time; const V_frac = final.L * H * w_avg * 2
      withW(final, w_avg) ==
        ResultFields("PKN", in, final, w_avg,
                     Mul(in.q, in.time),
                     Mul(Mul(Mul(final.L, in.H), w_avg), Int2F(2)),
                     checkRegime("PKN", getEPrime(in.E, in.nu), in.mu, in.q,
                                 in.K_IC, final.L, in.H),
                     PKNWarnings(final.L, in.H))
      \* const w_avg = (Math.PI / 4) * final.w * 0.8
      withFinal(final) ==
        withW(final, Mul(Mul(Div(MathPI, Int2F(4)), final.w), Lit(8, -1)))
  IN \* const final = solvePKN(time)
     withFinal(solvePKN(PKNTerms(in), in.time))

calculatePKN(in) ==
  WithSamples(PKNScalars(in), in.time, "solvePKN", PKNTerms(in), 1, 4)

\* ---- KGD Model: the result ----
\* warnings: final.L > i.H ? ["L > H: ..."] : []
KGDWarnings(L, H) ==
  IF Gt(L, H)
  THEN <<"L > H: KGD assumption violated (Long fracture).">>
  ELSE <<>>

KGDScalars(in) ==
  LET \* const Vi = q * time; const V_frac = 2 * final.L * H * w_avg
      withW(final, w_avg) ==
        ResultFields("KGD", in, final, w_avg,
                     Mul(in.q, in.time),
                     Mul(Mul(Mul(Int2F(2), final.L), in.H), w_avg),
                     checkRegime("KGD", getEPrime(in.E, in.nu), in.mu, in.q,
                                 in.K_IC, final.L, in.H),
                     KGDWarnings(final.L, in.H))
      \* const w_avg = (Math.PI / 4) * final.w
      withFinal(final) == withW(final, Mul(Div(MathPI, Int2F(4)), final.w))
  IN \* const final = solveKGD(time)
     withFinal(solveKGD(KGDTerms(in), in.time))

calculateKGD(in) ==
  WithSamples(KGDScalars(in), in.time, "solveKGD", KGDTerms(in), 1, 2)

\* ---- Radial Model: the result ----
\* the scalar fields of the Radial result with the contained volume of a
\* rectangular fracture of height H
RadialScalarsContained(in) ==
  LET withW(final, w_avg) ==
        ResultFields("Radial", in, final, w_avg,
                     Mul(in.q, in.time),
                     Mul(Mul(Mul(Int2F(2), final.L), in.H), w_avg),
                     checkRegime("Radial", getEPrime(in.E, in.nu), in.mu,
                                 in.q, in.K_IC, final.L, Zero),
                     <<>>)
      withFinal(final) == withW(final, Mul(Div(Int2F(2), Int2F(3)), final.w))
  IN withFinal(solveRadial(RadialTerms(in), in.time))

RadialScalars(in) ==
  LET \* const Vi = q * time; const V_frac = Math.PI * final.L * final.L * w_avg
      withW(final, w_avg) ==
        ResultFields("Radial", in, final, w_avg,
                     Mul(in.q, in.time),
                     Mul(Mul(Mul(MathPI, final.L), final.L), w_avg),
                     checkRegime("Radial", getEPrime(in.E, in.nu), in.mu,
                                 in.q, in.K_IC, final.L, Zero),
                     <<>>)
      \* const w_avg = (2 / 3) * final.w
      withFinal(final) == withW(final, Mul(Div(Int2F(2), Int2F(3)), final.w))
  IN \* const final = solveRadial(time)
     withFinal(solveRadial(RadialTerms(in), in.time))

calculateRadial(in) ==
  WithSamples(RadialScalars(in), in.time, "solveRadial", RadialTerms(in), 1, 2)

\* const calcFn = baseResult.type === PKN ? calculatePKN :
\*                baseResult.type === KGD ? calculateKGD : calculateRadial
calcFnName(type) ==
  IF type = "PKN" THEN "calculatePKN"
  ELSE IF type = "KGD" THEN "calculateKGD"
  ELSE "calculateRadial"

\* The fields of fn(in) other than timeSeries and profile.  runSensitivity
\* reads only length, width_avg and p_net of a perturbed result, so the two
\* sampled fields of the eight perturbed results are not built here.
CallScalars(fn, in) ==
  IF fn = "calculatePKN" THEN PKNScalars(in)
  ELSE IF fn = "calculateKGD" THEN KGDScalars(in)
  ELSE RadialScalars(in)

Call(fn, in) ==
  IF fn = "calculatePKN" THEN calculatePKN(in)
  ELSE IF fn = "calculateKGD" THEN calculateKGD(in)
  ELSE calculateRadial(in)

params == <<"mu", "q", "sigma_min", "CL">>
factors == <<Lit(5, -1), Int2F(2)>>

\* the perturbation written into the inputs object itself
perturbInPlace(in, param, factor) ==
  LET both(changed) == [newInputs |-> changed, inputs |-> changed]
  IN both([in EXCEPT ![param] = Mul(in[param], factor)])

\* const newInputs = { ...inputs, [param]: inputs[param] * factor }
\* The spread copies the record: newInputs is a new object and inputs is the
\* object it was before.
perturb(in, param, factor) ==
  [newInputs |-> [in EXCEPT ![param] = Mul(in[param], factor)],
   inputs |-> in]

\* the calls of runSensitivity with a solver that keeps the result of its
\* first perturbed run and returns it for every later one
RECURSIVE sensitivityCallsMemo(_, _, _)
sensitivityCallsMemo(k, in, baseResult) ==
  IF k > Len(params) * Len(factors) THEN <<>>
  ELSE LET returned(res) ==
             [length |-> res.length, width_avg |-> res.width_avg,
              p_net |-> res.p_net]
           call(fn, param, factor, pt) ==
             <<[fn |-> fn,
                parameter |-> param,
                factor |-> factor,
                newInputs |-> pt.newInputs,
                inputs |-> pt.inputs,
                res |-> returned(CallScalars(fn,
                          perturb(in, params[1], factors[1]).newInputs))]>>
             \o sensitivityCallsMemo(k + 1, pt.inputs, baseResult)
           iteration(param, factor) ==
             call(calcFnName(baseResult.type), param, factor,
                  perturb(in, param, factor))
       IN iteration(params[((k - 1) \div Len(factors)) + 1],
                    factors[((k - 1) % Len(factors)) + 1])

\* The calls runSensitivity makes from its k-th on, in order
\* (params.forEach(param => [0.5, 2.0].forEach(factor => ...))): the solver
\* called, the newInputs it was given, the inputs object as the call left it
\* and the length, width_avg and p_net of the result it returned.
RECURSIVE sensitivityCalls(_, _, _)
sensitivityCalls(k, in, baseResult) ==
  IF k > Len(params) * Len(factors) THEN <<>>
  ELSE LET returned(res) ==
             [length |-> res.length, width_avg |-> res.width_avg,
              p_net |-> res.p_net]
           \* const res = calcFn(newInputs)
           call(fn, param, factor, pt) ==
             <<[fn |-> fn,
                parameter |-> param,
                factor |-> factor,
                newInputs |-> pt.newInputs,
                inputs |-> pt.inputs,
                res |-> returned(CallScalars(fn, pt.newInputs))]>>
             \o sensitivityCalls(k + 1, pt.inputs, baseResult)
           iteration(param, factor) ==
             call(calcFnName(baseResult.type), param, factor,
                  perturb(in, param, factor))
       IN iteration(params[((k - 1) \div Len(factors)) + 1],
                    factors[((k - 1) % Len(factors)) + 1])

\* the change taken relative to the perturbed value
pctChangeOfPerturbed(x, base) == Mul(Div(Sub(x, base), x), Int2F(100))

\* the change with a zero baseline reported as no change
pctChangeGuarded(x, base) ==
  IF IsZero(base) THEN Zero ELSE Mul(Div(Sub(x, base), base), Int2F(100))

\* ((x - base) / base) * 100
pctChange(x, base) == Mul(Div(Sub(x, base), base), Int2F(100))

\* the rows runSensitivity pushes for its calls
sensitivityRows(cs, baseResult) ==
  LET push(c) ==
        [parameter |-> c.parameter,
         factor |-> c.factor,
         L_change |-> pctChange(c.res.length, baseResult.length),
         w_change |-> pctChange(c.res.width_avg, baseResult.width_avg),
         p_change |-> pctChange(c.res.p_net, baseResult.p_net)]
  IN [k \in 1..Len(cs) |-> push(cs[k])]

runSensitivity(in, baseResult) ==
  sensitivityRows(sensitivityCalls(1, in, baseResult), baseResult)

(***************************************************************************)
(* utils/unitConversion.ts                                                 *)
(***************************************************************************)
UNIT_CONFIG ==
  [SI |-> [pressure |-> One, rate |-> One, viscosity |-> One, length |-> One,
           width |-> Lit(1, -3), toughness |-> One, leakoff |-> One,
           time |-> One, dimensionless |-> One],
   Field |-> [pressure |-> Lit(689476, -2), rate |-> Lit(264979, -8),
              viscosity |-> Lit(1, -3), length |-> Lit(3048, -4),
              width |-> Lit(254, -4), toughness |-> Lit(109884, -2),
              leakoff |-> Lit(393396, -7), time |-> Int2F(60),
              dimensionless |-> One]]

PARAM_UNIT_MAP ==
  [E |-> "pressure", nu |-> "dimensionless", sigma_min |-> "pressure",
   CL |-> "leakoff", mu |-> "viscosity", q |-> "rate", H |-> "length",
   K_IC |-> "toughness", time |-> "time", p_limit |-> "pressure",
   depth |-> "length"]

convertValue(val, category, fromSys, toSys) ==
  IF fromSys = toSys THEN val
  ELSE LET fromFactor == UNIT_CONFIG[fromSys][category]
           toFactor == UNIT_CONFIG[toSys][category]
       IN Div(Mul(val, fromFactor), toFactor)

convertInputs(in, fromSys, toSys) ==
  [key \in Fields |-> convertValue(in[key], PARAM_UNIT_MAP[key], fromSys, toSys)]

(***************************************************************************)
(* App.tsx: the state of the App component and what the user can do.       *)
(***************************************************************************)
\* largest number of field edits and of unit switches in a behaviour
MaxEdits == 1
MaxSwitches == 1

\* what the user types into a field of the form (field, parseFloat(text))
Typed ==
  { <<"time", Zero>>, <<"time", Int2F(60)>>, <<"H", Zero>>,
    <<"CL", Lit(5, -9)>>, <<"K_IC", Lit(5, 5)>> }

\* useState<ModelResult | null>(null)
Null == [type |-> "null"]
\* no run of the effect yet
NoRun == [model |-> "none", fn |-> "none"]

VARIABLES
  inputs,         \* useState(INITIAL_INPUTS), in display units
  selectedModel,  \* useState(ModelType.PKN)
  unitSystem,     \* useState(UnitSystem.SI)
  result,         \* useState(null)
  sensitivity,    \* useState([])
  pending,        \* TRUE while the recompute effect is scheduled and has not run
  siInputs,       \* the siInputs object of the last run of the effect, as that run left it
  ran,            \* the model the last run of the effect was asked for and the solver it called
  calls,          \* the calls the last runSensitivity made
  edits,          \* number of field edits so far
  switches        \* number of unit switches so far

\* components/AIAssistant.tsx: the state of the AIAssistant component, which
\* the App keeps mounted next to the simulation view
VARIABLES
  messages,       \* useState([the greeting]); a message is [role, type, content]
  input,          \* useState('')
  isLoading,      \* useState(false)
  useSearch,      \* useState(false)
  useThinking,    \* useState(false)
  mode,           \* useState('chat')
  selectedImage,  \* useState(null)
  awaiting        \* the handleSend calls suspended at an await, in the order they started

aiVars == <<messages, input, isLoading, useSearch, useThinking, mode,
            selectedImage, awaiting>>

appVars == <<inputs, selectedModel, unitSystem, result, sensitivity, pending,
             siInputs, ran, calls, edits, switches>>

vars == <<appVars, aiVars>>

\* the greeting the chat starts with
Greeting == [role |-> "model", type |-> "text", content |-> "Hello"]
\* useState<string | null>(null)
NoImage == "null"

AIInit ==
  /\ messages = <<Greeting>>
  /\ input = ""
  /\ isLoading = FALSE
  /\ useSearch = FALSE
  /\ useThinking = FALSE
  /\ mode = "chat"
  /\ selectedImage = NoImage
  /\ awaiting = <<>>

Init ==
  /\ inputs = INITIAL_INPUTS
  /\ selectedModel = "PKN"
  /\ unitSystem = "SI"
  /\ result = Null
  /\ sensitivity = <<>>
  /\ pending = TRUE
  /\ siInputs = INITIAL_INPUTS
  /\ ran = NoRun
  /\ calls = <<>>
  /\ edits = 0
  /\ switches = 0
  /\ AIInit

\* InputsForm.update: onChange({ ...inputs, [field]: value })
Edit ==
  /\ ~pending
  /\ edits < MaxEdits
  /\ \E tv \in Typed :
       inputs' = [inputs EXCEPT ![tv[1]] = tv[2]]
  /\ edits' = edits + 1
  /\ pending' = TRUE
  /\ UNCHANGED aiVars
  /\ UNCHANGED <<selectedModel, unitSystem, result, sensitivity, siInputs,
                 ran, calls, switches>>

\* onModelChange = setSelectedModel, with one of the options of the select
ModelChange ==
  /\ ~pending
  /\ \E m \in ModelType \ {selectedModel} : selectedModel' = m
  /\ pending' = TRUE
  /\ UNCHANGED aiVars
  /\ UNCHANGED <<inputs, unitSystem, result, sensitivity, siInputs, ran,
                 calls, edits, switches>>

handleUnitChange ==
  /\ ~pending
  /\ switches < MaxSwitches
  /\ \E newSystem \in UnitSystem \ {unitSystem} :
       /\ inputs' = convertInputs(inputs, unitSystem, newSystem)
       /\ unitSystem' = newSystem
  /\ switches' = switches + 1
  /\ pending' = TRUE
  /\ UNCHANGED aiVars
  /\ UNCHANGED <<selectedModel, result, sensitivity, siInputs, ran, calls,
                 edits>>

\* a switch that falls to its default for every model
dispatchDefault(model) == "calculatePKN"

\* switch (selectedModel) { case KGD: ...; case RADIAL: ...; case PKN: default: ... }
dispatch(model) ==
  IF model = "KGD" THEN "calculateKGD"
  ELSE IF model = "Radial" THEN "calculateRadial"
  ELSE "calculatePKN"

\* setResult(res); setSensitivity(sens), for the calls cs that runSensitivity
\* made
setState(res, cs) ==
  /\ result' = res
  /\ sensitivity' = sensitivityRows(cs, res)
  /\ siInputs' = cs[Len(cs)].inputs
  /\ calls' = cs

\* const sens = runSensitivity(siInputs, res)
effectResult(si, res) == setState(res, sensitivityCalls(1, si, res))

\* switch (selectedModel) { ... res = calculateXxx(siInputs) ... }
effectBody(si) == effectResult(si, Call(dispatch(selectedModel), si))

\* useEffect(() => {...}, [inputs, selectedModel, unitSystem])
Recompute ==
  /\ pending
  \* const siInputs = convertInputs(inputs, unitSystem, UnitSystem.SI)
  /\ effectBody(convertInputs(inputs, unitSystem, "SI"))
  /\ ran' = [model |-> selectedModel, fn |-> dispatch(selectedModel)]
  /\ pending' = FALSE
  /\ UNCHANGED aiVars
  /\ UNCHANGED <<inputs, selectedModel, unitSystem, edits, switches>>

(***************************************************************************)
(* components/ResultsDashboard.tsx: what the dashboard shows for the props  *)
(* the App hands it (inputs, result, unitSystem).                          *)
(***************************************************************************)
\* const pLimitHit = result.p_well > inputs.p_limit (not read by the render)
pLimitHit == Gt(result.p_well, inputs.p_limit)

\* const toDisplay = (val, cat) => convertValue(val, cat, UnitSystem.SI, unitSystem)
toDisplay(val, cat) == convertValue(val, cat, "SI", unitSystem)

p_well_disp == toDisplay(result.p_well, "pressure")

\* const isLimitHit = p_well_disp > inputs.p_limit
isLimitHit == Gt(p_well_disp, inputs.p_limit)

\* Status: {isLimitHit ? 'Pressure Limit Exceeded' : 'Safe Operation'}
Status == IF isLimitHit THEN "Pressure Limit Exceeded" ELSE "Safe Operation"

Next == Edit \/ ModelChange \/ handleUnitChange \/ Recompute

Spec == Init /\ [][Next]_vars

\* The effect and runSensitivity take the model as a value; a caller that is
\* not the select of the form can hand them a value outside ModelType.
SetModelAny ==
  /\ ~pending
  /\ selectedModel \in ModelType
  /\ selectedModel' = "Other"
  /\ pending' = TRUE
  /\ UNCHANGED aiVars
  /\ UNCHANGED <<inputs, unitSystem, result, sensitivity, siInputs, ran,
                 calls, edits, switches>>

NextAny == Edit \/ ModelChange \/ handleUnitChange \/ Recompute \/ SetModelAny

SpecAny == Init /\ [][NextAny]_vars

\* The solvers as functions of their input record alone: the effect applied
\* to input sets that differ from the defaults in one field, for each model.
CalcEdits ==
  { <<"time", Zero>>, <<"time", Int2F(60)>>, <<"time", Int2F(900)>>,
    <<"time", Int2F(3600)>>, <<"H", Zero>>, <<"H", Int2F(10)>>,
    <<"H", Int2F(60)>>, <<"CL", Zero>>, <<"CL", Lit(5, -9)>>,
    <<"CL", Lit(1, -3)>>, <<"q", Lit(1, -2)>>, <<"q", Lit(2, -1)>>,
    <<"mu", Lit(1, -3)>>, <<"mu", One>>, <<"E", Lit(10, 9)>>,
    <<"nu", Lit(4, -1)>>, <<"K_IC", Lit(5, 5)>>, <<"sigma_min", Zero>>,
    <<"p_limit", Lit(50, 6)>>, <<"depth", Int2F(1000)>> }

CalcInputs ==
  {INITIAL_INPUTS} \cup {[INITIAL_INPUTS EXCEPT ![tv[1]] = tv[2]] : tv \in CalcEdits}

InitCalc ==
  /\ inputs \in CalcInputs
  /\ selectedModel \in ModelType
  /\ unitSystem = "SI"
  /\ result = Null
  /\ sensitivity = <<>>
  /\ pending = TRUE
  /\ siInputs = inputs
  /\ ran = NoRun
  /\ calls = <<>>
  /\ edits = 0
  /\ switches = 0
  /\ AIInit

SpecCalc == InitCalc /\ [][Recompute]_vars

(***************************************************************************)
(* components/AIAssistant.tsx: what the user and the service can do.       *)
(***************************************************************************)
\* longest conversation: a send or an upload starts only while the messages
\* list has room for its message and for the reply of every call in flight
MaxMessages == 5

\* what the text field can hold: nothing, white space, a prompt
Texts == {"", " ", "prompt"}
\* input.trim()
trim(s) == IF s = " " THEN "" ELSE s

Modes == {"chat", "image", "video"}

\* onChange={(e) => setInput(e.target.value)}
setInput ==
  /\ \E t \in Texts \ {input} : input' = t
  /\ UNCHANGED <<messages, isLoading, useSearch, useThinking, mode,
                 selectedImage, awaiting>>
  /\ UNCHANGED appVars

\* onClick={() => setMode(...)} of the three mode buttons
setMode ==
  /\ \E m \in Modes \ {mode} : mode' = m
  /\ UNCHANGED <<messages, input, isLoading, useSearch, useThinking,
                 selectedImage, awaiting>>
  /\ UNCHANGED appVars

\* the 'Google Search' checkbox, which is shown in chat mode:
\* setUseSearch(checked); if (checked) setUseThinking(false)
toggleSearchOnly(checked) ==
  /\ useSearch' = checked
  /\ useThinking' = useThinking

toggleSearch(checked) ==
  /\ useSearch' = checked
  /\ useThinking' = IF checked THEN FALSE ELSE useThinking

ToggleSearch ==
  /\ mode = "chat"
  /\ toggleSearch(~useSearch)
  /\ UNCHANGED <<messages, input, isLoading, mode, selectedImage,
                 awaiting>>
  /\ UNCHANGED appVars

\* the 'Thinking Mode' checkbox:
\* setUseThinking(checked); if (checked) setUseSearch(false)
toggleThinking(checked) ==
  /\ useThinking' = checked
  /\ useSearch' = IF checked THEN FALSE ELSE useSearch

ToggleThinking ==
  /\ mode = "chat"
  /\ toggleThinking(~useThinking)
  /\ UNCHANGED <<messages, input, isLoading, mode, selectedImage,
                 awaiting>>
  /\ UNCHANGED appVars

\* reader.onloadend of handleFileChange; the file input is shown in chat and
\* video mode
handleFileChange ==
  /\ mode \in {"chat", "video"}
  /\ Len(messages) + Len(awaiting) < MaxMessages
  /\ selectedImage' = "data:image"
  /\ messages' = Append(messages,
                        [role |-> "user", type |-> "image",
                         content |-> IF mode = "video"
                                     THEN "Uploaded image for video generation"
                                     ELSE "Uploaded image for editing"])
  /\ UNCHANGED <<input, isLoading, useSearch, useThinking, mode, awaiting>>
  /\ UNCHANGED appVars

\* const userMsg = { role: 'user', content: input, type: 'text' }
userMsg == [role |-> "user", type |-> "text", content |-> input]

\* the message of the catch block: content `Error: ${error.message}`
errorMsg == [role |-> "model", type |-> "text", content |-> "Error"]

\* the service the logic router of handleSend awaits
routed ==
  IF mode = "image" THEN "generateImage"
  ELSE IF mode = "video" THEN "generateVideo"
  ELSE IF selectedImage # NoImage THEN "editImage"
  ELSE "generateText"

\* handleSend up to its first await, or to its end where it awaits nothing
handleSend ==
  IF trim(input) = "" /\ selectedImage = NoImage
  THEN \* if (!input.trim() && !selectedImage) return
       UNCHANGED vars
  ELSE /\ Len(messages) + Len(awaiting) + 1 < MaxMessages
       /\ input' = ""
       /\ IF mode = "video" /\ selectedImage = NoImage
          THEN \* throw new Error("Please upload an image first ..."), caught
               \* below; finally: setIsLoading(false); setSelectedImage(null)
               /\ messages' = messages \o <<userMsg, errorMsg>>
               /\ isLoading' = FALSE
               /\ selectedImage' = NoImage
               /\ awaiting' = awaiting
          ELSE \* setMessages(prev => [...prev, userMsg]); setIsLoading(true);
               \* await generateXxx(...)
               /\ messages' = Append(messages, userMsg)
               /\ isLoading' = TRUE
               /\ selectedImage' = selectedImage
               /\ awaiting' = Append(awaiting,
                                     [service |-> routed,
                                      useSearch |-> useSearch,
                                      useThinking |-> useThinking])
       /\ UNCHANGED <<useSearch, useThinking, mode>>
       /\ UNCHANGED appVars

\* <button onClick={handleSend} disabled={isLoading}>
ClickSend == ~isLoading /\ handleSend

\* onKeyDown={(e) => e.key === 'Enter' && handleSend()}
PressEnter == handleSend

\* how an awaited service call can end
Outcomes(service) ==
  IF service = "generateVideo"
  THEN {"resolved", "rejected", "API_KEY_REQUIRED"}
  ELSE {"resolved", "rejected"}

\* the model message handleSend appends when its awaited call has ended
reply(service, outcome) ==
  IF outcome = "rejected" THEN errorMsg
  ELSE IF outcome = "API_KEY_REQUIRED"
  THEN [role |-> "model", type |-> "text",
        content |-> "Veo requires a paid API key"]
  ELSE IF service = "generateImage"
  THEN [role |-> "model", type |-> "image", content |-> "Generated image"]
  ELSE IF service = "generateVideo"
  THEN [role |-> "model", type |-> "video", content |-> "Veo generated video"]
  ELSE IF service = "editImage"
  THEN [role |-> "model", type |-> "image", content |-> "Edited image"]
  ELSE [role |-> "model", type |-> "text", content |-> "Response"]

\* awaiting without its i-th call
Resumed(i) ==
  [k \in 1..(Len(awaiting) - 1) |->
     IF k < i THEN awaiting[k] ELSE awaiting[k + 1]]

\* a handleSend whose inner catch rethrows after the paid-key notice, so that
\* the outer catch appends an error message as well
SettleRethrow ==
  /\ \E i \in 1..Len(awaiting) :
       /\ \E outcome \in Outcomes(awaiting[i].service) :
            messages' =
              IF outcome = "API_KEY_REQUIRED"
              THEN messages \o <<reply(awaiting[i].service, outcome), errorMsg>>
              ELSE Append(messages, reply(awaiting[i].service, outcome))
       /\ awaiting' = Resumed(i)
  /\ isLoading' = FALSE
  /\ selectedImage' = NoImage
  /\ UNCHANGED <<input, useSearch, useThinking, mode>>
  /\ UNCHANGED appVars

\* handleSend from the end of its await: the reply or the error message,
\* then finally { setIsLoading(false); setSelectedImage(null) }
Settle ==
  /\ \E i \in 1..Len(awaiting) :
       /\ \E outcome \in Outcomes(awaiting[i].service) :
            messages' = Append(messages, reply(awaiting[i].service, outcome))
       /\ awaiting' = Resumed(i)
  /\ isLoading' = FALSE
  /\ selectedImage' = NoImage
  /\ UNCHANGED <<input, useSearch, useThinking, mode>>
  /\ UNCHANGED appVars

NextAI ==
  \/ setInput \/ setMode \/ ToggleSearch \/ ToggleThinking
  \/ handleFileChange \/ ClickSend \/ PressEnter \/ Settle

SpecAI == Init /\ [][NextAI]_vars

(***************************************************************************)
(* Properties.                                                             *)
(***************************************************************************)
\* The data-model invariant of an input set (E > 0, 0 < nu < 0.5, mu > 0,
\* q > 0, H > 0, CL > 0, time >= 0).
ValidInputs(in) ==
  /\ Gt(in.E, Zero)
  /\ Gt(in.nu, Zero) /\ Lt(in.nu, Lit(5, -1))
  /\ Gt(in.mu, Zero)
  /\ Gt(in.q, Zero)
  /\ Gt(in.H, Zero)
  /\ Gt(in.CL, Zero)
  /\ Le(Zero, in.time)

\* The valid domain of the error taxonomy: E, mu, q, H, CL, K_IC and time
\* positive, -1 < nu < 0.5.
InDomain(in) ==
  /\ Gt(in.E, Zero)
  /\ Gt(in.nu, Int2F(-1)) /\ Lt(in.nu, Lit(5, -1))
  /\ Gt(in.mu, Zero)
  /\ Gt(in.q, Zero)
  /\ Gt(in.H, Zero)
  /\ Gt(in.CL, Zero)
  /\ Gt(in.K_IC, Zero)
  /\ Gt(in.time, Zero)

\* the times at which the solver of a result was evaluated: the final time
\* and the 50 samples of the history
EvalTimes(in) ==
  {in.time} \cup {Mul(Div(in.time, Int2F(steps)), Int2F(i)) : i \in 1..steps}

\* the two asymptotes of the solver of model type at time t, for inputs in
Asymptotes(type, in, t) ==
  IF type = "PKN"
  THEN <<PKN_L_no_leakoff(PKNTerms(in), t), PKN_L_high_leakoff(PKNTerms(in), t)>>
  ELSE IF type = "KGD"
  THEN <<KGD_L_no_leakoff(KGDTerms(in), t), KGD_L_high_leakoff(KGDTerms(in), t)>>
  ELSE <<Radial_R_no_leakoff(RadialTerms(in), t),
         Radial_R_high_leakoff(RadialTerms(in), t)>>

\* C1: for a valid input set and each solver, at every evaluated time t > 0
\* the combined extent 1/(1/L_no_leakoff + 1/L_high_leakoff) is at most
\* L_no_leakoff and at most L_high_leakoff.
C1_HarmonicBelowBoth ==
  (result # Null /\ ValidInputs(siInputs)) =>
    \A t \in EvalTimes(siInputs) :
      Gt(t, Zero) =>
        LET ab == Asymptotes(result.type, siInputs, t)
            L == Harmonic(ab[1], ab[2])
        IN Le(L, ab[1]) /\ Le(L, ab[2])

\* C2: for an input set that satisfies the data-model invariant (time >= 0
\* included) the efficiency of the result is a number in [0, 1].
C2_EfficiencyInUnitInterval ==
  (result # Null /\ ValidInputs(siInputs)) =>
    (Le(Zero, result.efficiency) /\ Le(result.efficiency, One))

\* C3: no Model Result is produced for an input set that has a parameter
\* outside its valid domain: the input set a result was computed from
\* (siInputs) is in the valid domain.
C3_InvalidInputRejected ==
  result # Null => InDomain(siInputs)

AllFinite(res) ==
  /\ \A f \in {"length", "width_avg", "width_max", "p_net", "p_well",
               "efficiency", "volume_injected", "volume_leakoff"} :
       isFinite(res[f])
  /\ \A i \in 1..Len(res.timeSeries) :
       /\ isFinite(res.timeSeries[i].time)
       /\ isFinite(res.timeSeries[i].length)
       /\ isFinite(res.timeSeries[i].width)
       /\ isFinite(res.timeSeries[i].pressure)
  /\ \A i \in 1..Len(res.profile) :
       isFinite(res.profile[i].position) /\ isFinite(res.profile[i].width)

\* C4: a Model Result never has a non-finite field (NaN, +Infinity,
\* -Infinity) among its scalars, in its time history or in its width profile.
C4_NoNonFiniteResult ==
  result # Null => AllFinite(result)

\* C5: a requested model variant outside {PKN, KGD, Radial} is rejected at
\* dispatch: the run of the effect that was asked for it calls no solver.
C5_UnsupportedModelRejected ==
  (ran # NoRun /\ ran.model \notin ModelType) => ran.fn = "none"

\* C6: a PKN result has a warning iff its final length < 2*H, a KGD result
\* iff its final length > H, a Radial result never, and no result has more
\* than one warning.
C6_WarningsIffCondition ==
  result # Null =>
    /\ Len(result.warnings) <= 1
    /\ result.type = "PKN" =>
         (result.warnings # <<>> <=>
            Lt(result.length, Mul(Int2F(2), siInputs.H)))
    /\ result.type = "KGD" =>
         (result.warnings # <<>> <=> Gt(result.length, siInputs.H))
    /\ result.type = "Radial" => result.warnings = <<>>

\* a PKN result of positive final length below 2*H, with its warning
C6_ShortPKNWarned ==
  /\ result # Null
  /\ result.type = "PKN"
  /\ Gt(result.length, Zero)
  /\ Lt(result.length, Mul(Int2F(2), siInputs.H))
  /\ Len(result.warnings) = 1

\* K_IC / (mu * q * 1e6) of an input set
Score(in) == Div(in.K_IC, Mul(Mul(in.mu, in.q), Lit(1, 6)))

\* C7: the regime of a result is "Toughness" when K_IC/(mu*q*1e6) > 100 and
\* "Viscosity" otherwise; the three solvers give the same label, as does any
\* other value of E, nu, H, CL or time, and the label is never
\* "Leakoff-Dominated".
C7_RegimeIsThreshold ==
  result # Null =>
    /\ result.regime =
         (IF Gt(Score(siInputs), Int2F(100)) THEN "Toughness" ELSE "Viscosity")
    /\ result.regime # "Leakoff-Dominated"
    /\ \A m \in ModelType :
         CallScalars(dispatch(m), siInputs).regime = result.regime
    /\ \A tv \in Typed :
         tv[1] \in {"E", "nu", "H", "CL", "time"} =>
           CallScalars(ran.fn, [siInputs EXCEPT ![tv[1]] = tv[2]]).regime
             = result.regime

\* a KGD result classified "Viscosity"
C7_ViscosityReached ==
  result # Null /\ result.type = "KGD" /\ result.regime = "Viscosity"

\* the rows of the sensitivity analysis, in order
SensitivityOrder ==
  << <<"mu", Lit(5, -1)>>, <<"mu", Int2F(2)>>, <<"q", Lit(5, -1)>>,
     <<"q", Int2F(2)>>, <<"sigma_min", Lit(5, -1)>>, <<"sigma_min", Int2F(2)>>,
     <<"CL", Lit(5, -1)>>, <<"CL", Int2F(2)>> >>

\* C8: runSensitivity returns 8 rows in the order (mu,0.5), (mu,2), (q,0.5),
\* (q,2), (sigma_min,0.5), (sigma_min,2), (CL,0.5), (CL,2), and L_change,
\* w_change and p_change of a row are (perturbed - baseline)/baseline*100 of
\* length, width_avg and p_net.
C8_EightRowsInOrder ==
  result # Null =>
    /\ Len(sensitivity) = 8
    /\ \A k \in 1..Len(sensitivity) :
         LET row == sensitivity[k]
             pert == calls[k].res
             pct(f) == Mul(Div(Sub(pert[f], result[f]), result[f]), Int2F(100))
         IN /\ row.parameter = SensitivityOrder[k][1]
            /\ row.factor = SensitivityOrder[k][2]
            /\ row.L_change = pct("length")
            /\ row.w_change = pct("width_avg")
            /\ row.p_change = pct("p_net")

\* eight rows whose first one has a finite non-zero change of length
C8_FiniteChangeReached ==
  /\ result # Null
  /\ Len(sensitivity) = 8
  /\ IsFin(sensitivity[1].L_change)
  /\ IsFin(sensitivity[8].p_change)

\* C9: each of the 8 perturbed runs uses the solver that produced the
\* baseline and gets the base input set with one parameter multiplied by the
\* factor and every other field unchanged; the base input record is left as
\* it was.
C9_PerturbedRunsFrame ==
  (ran # NoRun /\ ~pending) =>
    LET base == convertInputs(inputs, unitSystem, "SI")
    IN /\ siInputs = base
       /\ Len(calls) = 8
       /\ \A k \in 1..Len(calls) :
            LET c == calls[k]
            IN /\ c.fn = ran.fn
               /\ c.inputs = base
               /\ c.newInputs[c.parameter] = Mul(base[c.parameter], c.factor)
               /\ \A f \in Fields \ {c.parameter} : c.newInputs[f] = base[f]

\* a Radial baseline whose last perturbed run got a CL other than the base's
C9_RadialPerturbedReached ==
  /\ ran # NoRun /\ ~pending
  /\ result.type = "Radial"
  /\ Len(calls) = 8
  /\ calls[8].fn = "calculateRadial"
  /\ calls[8].newInputs.CL # siInputs.CL

\* the percentage field of a row that belongs to a baseline field
ChangeField(f) ==
  IF f = "length" THEN "L_change"
  ELSE IF f = "width_avg" THEN "w_change"
  ELSE "p_change"

\* C10: when the baseline length, width_avg or p_net is zero, the analysis
\* still returns 8 rows and the percentage field of that baseline field is
\* NaN or an infinity in every row.
C10_ZeroBaselineNonFinite ==
  result # Null =>
    \A f \in {"length", "width_avg", "p_net"} :
      IsZero(result[f]) =>
        /\ Len(sensitivity) = 8
        /\ \A k \in 1..Len(sensitivity) :
             ~isFinite(sensitivity[k][ChangeField(f)])

\* a baseline of zero length, with its eight rows
C10_ZeroBaselineReached ==
  /\ result # Null
  /\ IsZero(result.length)
  /\ IsZero(result.p_net)
  /\ Len(sensitivity) = 8

\* the volume held by the fracture of a result, from its reported geometry
ContainedVolume(res, in) ==
  IF res.type = "Radial"
  THEN Mul(Mul(Mul(MathPI, res.length), res.length), res.width_avg)
  ELSE IF res.type = "KGD"
  THEN Mul(Mul(Mul(Int2F(2), res.length), in.H), res.width_avg)
  ELSE Mul(Mul(Mul(res.length, in.H), res.width_avg), Int2F(2))

\* C11 as stated: volume_injected = q*time, volume_leakoff = volume_injected -
\* contained volume without clamp, volume_leakoff is negative exactly when the
\* contained volume exceeds the injected one and efficiency is then 1, and
\* when efficiency < 1, efficiency*volume_injected + volume_leakoff equals
\* volume_injected.
C11_VolumeBalanceExact ==
  result # Null =>
    /\ result.volume_injected = Mul(siInputs.q, siInputs.time)
    /\ result.volume_leakoff =
         Sub(result.volume_injected, ContainedVolume(result, siInputs))
    /\ Lt(result.volume_leakoff, Zero)
         <=> Gt(ContainedVolume(result, siInputs), result.volume_injected)
    /\ Lt(result.volume_leakoff, Zero) => result.efficiency = One
    /\ Lt(result.efficiency, One) =>
         Add(Mul(result.efficiency, result.volume_injected),
             result.volume_leakoff) = result.volume_injected

\* C11: volume_injected = q*time, volume_leakoff = volume_injected -
\* contained volume without clamp, volume_leakoff is negative exactly when the
\* contained volume exceeds the injected one and efficiency is then 1, and
\* when efficiency < 1 it is the quotient contained volume / volume_injected
\* (the sum efficiency*volume_injected + volume_leakoff equals
\* volume_injected only up to the rounding of that quotient).
C11_VolumeBalance ==
  result # Null =>
    /\ result.volume_injected = Mul(siInputs.q, siInputs.time)
    /\ result.volume_leakoff =
         Sub(result.volume_injected, ContainedVolume(result, siInputs))
    /\ Lt(result.volume_leakoff, Zero)
         <=> Gt(ContainedVolume(result, siInputs), result.volume_injected)
    /\ Lt(result.volume_leakoff, Zero) => result.efficiency = One
    /\ Lt(result.efficiency, One) =>
         result.efficiency =
           Div(ContainedVolume(result, siInputs), result.volume_injected)

\* a fracture that holds less than was injected: efficiency below 1 and a
\* positive leaked-off volume
C11_LeakoffReached ==
  /\ result # Null
  /\ Lt(result.efficiency, One)
  /\ Gt(result.volume_leakoff, Zero)

\* C12: in every result the wellbore pressure is the sum of the minimum
\* horizontal stress of the input and the net pressure of the result.
C12_WellborePressure ==
  result # Null =>
    result.p_well = Add(siInputs.sigma_min, result.p_net)

\* a result with a finite positive net pressure on top of a positive stress
C12_PressureReached ==
  /\ result # Null
  /\ IsFin(result.p_well)
  /\ Gt(result.p_net, Zero)
  /\ Gt(siInputs.sigma_min, Zero)
  /\ Gt(result.p_well, siInputs.sigma_min)

SolverAt(type, in, t) ==
  IF type = "PKN" THEN solvePKN(PKNTerms(in), t)
  ELSE IF type = "KGD" THEN solveKGD(KGDTerms(in), t)
  ELSE solveRadial(RadialTerms(in), t)

\* record rec is the solver of model type evaluated at the record's own time
FreshRecord(type, in, rec) ==
  LET same(res) ==
        /\ rec.length = res.L
        /\ rec.width = res.w
        /\ rec.pressure = res.p
  IN same(SolverAt(type, in, rec.time))

ShapeExponent(type) == IF type = "PKN" THEN <<1, 4>> ELSE <<1, 2>>

\* C15: the width profile of a result (here: of a result for inputs in the
\* valid domain) has exactly 51 points; point i (0..50) is at position
\* (L/50)*i with width w_max*(1 - x/L)^e, e = 0.25 for PKN and 0.5 for KGD and
\* Radial; positions ascend from 0 to L, the first width is width_max, the
\* last width is 0 and widths never increase along the profile.
C15_ProfileShape ==
  (result # Null /\ InDomain(siInputs)) =>
    /\ Len(result.profile) = 51
    /\ \A j \in 1..51 :
         /\ result.profile[j].position =
              Mul(Div(result.length, Int2F(50)), Int2F(j - 1))
         /\ result.profile[j].width =
              Mul(result.width_max,
                  PowFrac(Sub(One, Div(result.profile[j].position, result.length)),
                          ShapeExponent(result.type)[1],
                          ShapeExponent(result.type)[2]))
    /\ result.profile[1].position = Zero
    /\ result.profile[51].position = result.length
    /\ \A j \in 1..50 :
         /\ Lt(result.profile[j].position, result.profile[j + 1].position)
         /\ Le(result.profile[j + 1].width, result.profile[j].width)
    /\ result.profile[1].width = result.width_max
    /\ result.profile[51].width = Zero

\* the three fields runSensitivity reads of a result
Returned(res) ==
  [length |-> res.length, width_avg |-> res.width_avg, p_net |-> res.p_net]

OtherLimits == {Lit(50, 6), Zero}
OtherDepths == {Int2F(1000), Zero}
OtherHeights == {Int2F(10), Int2F(60), Zero}

\* C17: an input set that differs from the one computed only in p_limit
\* and/or depth gives the identical result with every model, and one that
\* differs only in H gives the identical Radial result.
C17_UnreadFields ==
  result # Null =>
    /\ \A pl \in OtherLimits \cup {siInputs.p_limit} :
         \A d \in OtherDepths \cup {siInputs.depth} :
           Call(calcFnName(result.type),
                [siInputs EXCEPT !.p_limit = pl, !.depth = d]) = result
    /\ result.type = "Radial" =>
         \A h \in OtherHeights :
           Call("calculateRadial", [siInputs EXCEPT !.H = h]) = result

\* a finite Radial result for a height that is none of the other heights
C17_RadialReached ==
  /\ result # Null
  /\ result.type = "Radial"
  /\ IsFin(result.length) /\ IsFin(result.efficiency)
  /\ siInputs.H \notin OtherHeights
  /\ siInputs.p_limit \notin OtherLimits
  /\ siInputs.depth \notin OtherDepths

\* lo <= x <= hi
Within(x, lo, hi) == Le(lo, x) /\ Le(x, hi)

\* C18: for the default inputs the PKN solver returns a length of about
\* 163 m, a maximum width of about 16.9 mm, an average width of about
\* 10.6 mm, a net pressure of about 6.0 MPa (each to within 1 per cent), no
\* warning, the regime "Toughness" for a score of about 200, an injected
\* volume of 90, an efficiency of exactly 1 and a negative leaked-off volume
\* for a contained volume of about 104.
C18_DefaultPKN ==
  (result # Null /\ result.type = "PKN" /\ siInputs = INITIAL_INPUTS) =>
    /\ Within(result.length, Lit(1614, -1), Lit(1646, -1))
    /\ Within(result.width_max, Lit(1673, -5), Lit(1707, -5))
    /\ Within(result.width_avg, Lit(1049, -5), Lit(1071, -5))
    /\ Within(result.p_net, Lit(594, 4), Lit(606, 4))
    /\ result.warnings = <<>>
    /\ result.regime = "Toughness"
    /\ Within(Score(siInputs), Int2F(198), Int2F(202))
    /\ result.volume_injected = Int2F(90)
    /\ result.efficiency = One
    /\ Lt(result.volume_leakoff, Zero)
    /\ Within(ContainedVolume(result, siInputs), Int2F(103), Int2F(105))

\* the PKN result of the default inputs
C18_DefaultReached ==
  /\ result # Null
  /\ result.type = "PKN"
  /\ siInputs = INITIAL_INPUTS
  /\ inputs = INITIAL_INPUTS
  /\ IsFin(result.length)

\* C19: as long as no field has been edited, whatever the number of unit
\* switches, the effect passes the same SI input set to the solver (the
\* default one), so that the result and the sensitivity rows are those of
\* the default inputs; and convertValue from a system to itself returns its
\* argument.
C19_UnitSwitchKeepsSI ==
  /\ \A sys \in UnitSystem : \A f \in Fields :
       convertValue(inputs[f], PARAM_UNIT_MAP[f], sys, sys) = inputs[f]
  /\ (edits = 0 /\ ~pending /\ result # Null) =>
       /\ siInputs = INITIAL_INPUTS
       /\ result = Call(ran.fn, INITIAL_INPUTS)
       /\ sensitivity = runSensitivity(INITIAL_INPUTS, result)

\* C20: for every model and every input with time > 0, the 50th record of
\* the time history is the final result: its time is the input time, its
\* length the length of the result, its width the maximum width and its
\* pressure the net pressure.
C20_LastRecordIsFinal ==
  (result # Null /\ Gt(siInputs.time, Zero)) =>
    /\ result.timeSeries[50].time = siInputs.time
    /\ result.timeSeries[50].length = result.length
    /\ result.timeSeries[50].width = result.width_max
    /\ result.timeSeries[50].pressure = result.p_net

\* the rows of the sensitivity table that belong to sigma_min
SigmaRows == {k \in 1..Len(sensitivity) : sensitivity[k].parameter = "sigma_min"}

\* C21 as stated (here for inputs that satisfy the data-model invariant): the
\* two sensitivity rows of sigma_min (factors 0.5 and 2) have L_change =
\* w_change = p_change = 0, for every model.
C21_SigmaRowsZero ==
  (result # Null /\ ValidInputs(siInputs)) =>
    /\ {sensitivity[k].factor : k \in SigmaRows} = {Lit(5, -1), Int2F(2)}
    /\ \A k \in SigmaRows :
         \A f \in {"length", "width_avg", "p_net"} :
           sensitivity[k][ChangeField(f)] = Zero

\* C21: the two sensitivity rows of sigma_min (factors 0.5 and 2) have a
\* change of 0 in each of length, average width and net pressure whose
\* baseline value is finite and not zero, for every model; for a baseline
\* value that is zero or not finite the change is NaN.
C21_SigmaRowsZeroOrNaN ==
  result # Null =>
    /\ {sensitivity[k].factor : k \in SigmaRows} = {Lit(5, -1), Int2F(2)}
    /\ \A k \in SigmaRows :
         \A f \in {"length", "width_avg", "p_net"} :
           IF IsFin(result[f]) /\ ~IsZero(result[f])
           THEN sensitivity[k][ChangeField(f)] = Zero
           ELSE IsNaN(sensitivity[k][ChangeField(f)])

\* a finite baseline with a positive stress, whose sigma_min rows are zero
\* while its first row is not
C21_SigmaRowsReached ==
  /\ result # Null
  /\ Gt(siInputs.sigma_min, Zero)
  /\ IsFin(result.length) /\ Gt(result.length, Zero)
  /\ Len(sensitivity) = 8
  /\ SigmaRows = {5, 6}
  /\ sensitivity[5].p_change = Zero /\ sensitivity[6].L_change = Zero
  /\ sensitivity[1].L_change # Zero

\* C22: once the effect has run after whatever edits, model selections and
\* unit switches, the stored result has the type of the selected model and
\* is the result of that model's solver for the SI conversion of the current
\* inputs, and the stored sensitivity rows are those of that result and
\* those SI inputs.
C22_ResultMatchesState ==
  (ran # NoRun /\ ~pending) =>
    /\ result # Null
    /\ result.type = selectedModel
    /\ siInputs = convertInputs(inputs, unitSystem, "SI")
    /\ result = Call(calcFnName(selectedModel), siInputs)
    /\ sensitivity = sensitivityRows(calls, result)
    /\ Len(calls) = Len(params) * Len(factors)
    /\ \A k \in 1..Len(calls) :
         /\ calls[k].fn = calcFnName(selectedModel)
         /\ calls[k].inputs = siInputs

\* the effect has run after an edit, a unit switch and a model selection
C22_AfterChangesReached ==
  /\ ran # NoRun /\ ~pending
  /\ edits = 1 /\ switches = 1
  /\ unitSystem = "Field"
  /\ selectedModel = "Radial"
  /\ result.type = "Radial"

\* C23: whenever the dashboard is shown, in either unit system, its status
\* is "Pressure Limit Exceeded" exactly when the wellbore pressure converted
\* from SI to the display unit system is greater than the p_limit of the
\* form, and "Safe Operation" otherwise; the unconverted SI pressure does
\* not decide it.
C23_LimitStatusInDisplayUnits ==
  result # Null =>
    /\ Status \in {"Pressure Limit Exceeded", "Safe Operation"}
    /\ Status = "Pressure Limit Exceeded"
         <=> Gt(convertValue(result.p_well, "pressure", "SI", unitSystem),
                inputs.p_limit)

\* Field units, where the SI pressure is above the number entered as limit
\* in psi while the pressure in psi is below it
C23_FieldSafeReached ==
  /\ result # Null /\ ~pending
  /\ unitSystem = "Field"
  /\ IsFin(result.p_well)
  /\ Gt(result.p_well, inputs.p_limit)
  /\ Status = "Safe Operation"


\* C24: isLoading is TRUE in every state in which some handleSend call is
\* still awaiting its service response, whatever the interleaving of Send
\* clicks, Enter presses and service completions.
C24_LoadingWhileAwaiting == awaiting # <<>> => isLoading


\* the messages handleSend itself appends: the user's texts and the model's
\* replies (the uploads are appended by handleFileChange)
userTexts ==
  {i \in 1..Len(messages) :
     messages[i].role = "user" /\ messages[i].type = "text"}
modelReplies ==
  {i \in 2..Len(messages) : messages[i].role = "model"}

\* every model message a settled call may append
Replies ==
  {reply(s, o) : s \in {"generateImage", "generateVideo", "editImage", "generateText"},
                 o \in {"resolved", "rejected", "API_KEY_REQUIRED"}}

\* the empty-input check fails
Blank == trim(input) = "" /\ selectedImage = NoImage

\* a call starts and awaits its service: the user's message is appended
CallStarts ==
  /\ ~Blank
  /\ messages' = Append(messages, userMsg)
  /\ isLoading'
  /\ Len(awaiting') = Len(awaiting) + 1

\* an awaited call settles: one model message, then the finally block
CallSettles ==
  /\ \E m \in Replies : messages' = Append(messages, m)
  /\ ~isLoading'
  /\ selectedImage' = NoImage
  /\ Len(awaiting') = Len(awaiting) - 1

\* video mode without an image: the user's message and the error message,
\* with no service call
CallFailsAtOnce ==
  /\ ~Blank
  /\ mode = "video"
  /\ selectedImage = NoImage
  /\ messages' = messages \o <<userMsg, errorMsg>>
  /\ ~isLoading'
  /\ selectedImage' = NoImage

\* an upload appends its own message
UploadOnly ==
  /\ Len(messages') = Len(messages) + 1
  /\ messages'[Len(messages')].role = "user"
  /\ messages'[Len(messages')].type = "image"
  /\ selectedImage' # NoImage

\* C25: every handleSend call that passes the empty-input check first appends
\* the user's message and, once its service call settles, exactly one model
\* message (the response, the paid-key notice or an error message; at once in
\* video mode without an image), and then leaves isLoading = FALSE and
\* selectedImage = null; a call with blank text and no image changes nothing.
C25_SendAppendsOneReply ==
  /\ [](Cardinality(userTexts) = Cardinality(modelReplies) + Len(awaiting))
  /\ [](Blank => ~ENABLED <<handleSend>>_vars)
  /\ [][ /\ Len(awaiting') > Len(awaiting) => CallStarts
         /\ Len(awaiting') < Len(awaiting) => CallSettles
         /\ (Len(awaiting') = Len(awaiting) /\ messages' # messages)
              => (CallFailsAtOnce \/ UploadOnly) ]_vars

\* a video call with an uploaded image has ended with the paid-key notice
C25_NoticeReached ==
  /\ awaiting = <<>>
  /\ ~isLoading
  /\ selectedImage = NoImage
  /\ Len(messages) = 4
  /\ messages[2].type = "image"
  /\ messages[3].role = "user" /\ messages[3].type = "text"
  /\ messages[4] = reply("generateVideo", "API_KEY_REQUIRED")


\* C26: after any sequence of toggles of the two checkboxes and of mode
\* changes, useSearch and useThinking are never both TRUE, and no generateText
\* call is made with both flags set.
C26_SearchXorThinking ==
  /\ ~(useSearch /\ useThinking)
  /\ \A i \in 1..Len(awaiting) :
       awaiting[i].service = "generateText"
         => ~(awaiting[i].useSearch /\ awaiting[i].useThinking)

\* 'Thinking Mode' was checked after a generateText call was sent with
\* 'Google Search' checked, and checking it cleared useSearch
C26_ClearedReached ==
  /\ useThinking
  /\ ~useSearch
  /\ \E i \in 1..Len(awaiting) :
       awaiting[i].service = "generateText" /\ awaiting[i].useSearch
====
